---- MODULE Spec2Model ----
(***************************************************************************)
(* A model of tiny_future (src/src/lib.rs): one container `Inner<T, U>`    *)
(* reached through reference-counted `Future` handles that are held by a   *)
(* fixed population of threads.  Every public operation is split at the    *)
(* points where another thread can interleave: the acquisition of a mutex, *)
(* the critical section up to the release of that mutex, a condition       *)
(* variable wait, and the separate loads of `Drop::drop`.                  *)
(***************************************************************************)
EXTENDS Integers, Naturals, Sequences, FiniteSets, TLC

\* ---------------------------------------------------------------- bounds
MaxHandles == 3      \* cap on Arc::strong_count (guards Clone)
MaxValue == 2        \* results are drawn from 1..MaxValue
MaxShared == 1       \* shared-state values are drawn from 0..MaxShared
MaxTime == 2         \* the monotonic clock runs from 0 to MaxTime

MainThreads == {1, 2}    \* the threads of Spec
WaitThreads == {1, 2, 3} \* the threads of NoSetSpec
Values == 1..MaxValue
SharedValues == 0..MaxShared
NoThread == 0        \* a free mutex
None == 0            \* Option::None in payload.1

\* ------------------------------------------------------------ enum State
Waiting == "Waiting"
Ready == "Ready"
Consumed == "Consumed"
Canceled == "Canceled"
State == {Waiting, Ready, Consumed, Canceled}

VARIABLES
    state,           \* payload.0
    value,           \* payload.1 (None or a result)
    payload_lock,    \* the thread holding Inner::payload, or NoThread
    shared_state,    \* the value inside Inner::shared_state
    shared_lock,     \* the thread holding Inner::shared_state, or NoThread
    cancel_on_drop,  \* Inner::cancel_on_drop
    strong_count,    \* Arc strong count of the container (0: destroyed)
    handles,         \* handles[t]: number of Future handles thread t owns
    pc,              \* pc[t]: where thread t is inside its current call
    timeout_point,   \* timeout_point[t] of a running try_get_timeout
    wake_at,         \* instant at which t's wait_timeout times out
    now,             \* Instant::now()
    ret,             \* the call that returned in the last step, if any
    sets,            \* history: the values of the set() calls that returned Ok
    gets,            \* history: the values returned Ok by consumer calls
    detached,        \* history: a detach() call has returned
    written          \* history: the shared state as the last write call left it

vars == <<state, value, payload_lock, shared_state, shared_lock, cancel_on_drop,
          strong_count, handles, pc, timeout_point, wake_at, now, ret, sets, gets,
          detached, written>>

payloadVars == <<state, value>>
sharedVars == <<shared_state, shared_lock>>
timeVars == <<timeout_point, wake_at, now>>
Threads == DOMAIN pc     \* the thread population is fixed by Init
histVars == <<sets, gets, detached, written>>

\* ------------------------------------------------------- return records
NoRet == [thr |-> 0, op |-> "none", ok |-> TRUE, val |-> None, st |-> "none"]
Ok(t, o, v) == [thr |-> t, op |-> o, ok |-> TRUE, val |-> v, st |-> "none"]
Err(t, o, s) == [thr |-> t, op |-> o, ok |-> FALSE, val |-> None, st |-> s]

\* Future::with_state(shared_state), its one handle owned by thread 1 of T
InitWith(T, shared) ==
    /\ state = Waiting
    /\ value = None
    /\ payload_lock = NoThread
    /\ shared_state = shared
    /\ shared_lock = NoThread
    /\ cancel_on_drop = TRUE
    /\ strong_count = 1
    /\ handles = [t \in T |-> IF t = 1 THEN 1 ELSE 0]
    /\ pc = [t \in T |-> "idle"]
    /\ timeout_point = [t \in T |-> 0]
    /\ wake_at = [t \in T |-> 0]
    /\ now = 0
    /\ ret = NoRet
    /\ sets = <<>>
    /\ gets = <<>>
    /\ detached = FALSE
    /\ written = shared

\* Future::new(): the shared state is the unit value
Init == InitWith(MainThreads, 0)

\* Future::with_state(shared_state) for any shared state
InitShared == \E shared \in SharedValues : InitWith(MainThreads, shared)

\* A thread can start a call when it is between calls and owns a handle.
CanCall(t) == pc[t] = "idle" /\ handles[t] > 0

\* self.0.payload.lock(), and the re-acquisition at the end of a condvar wait:
\* blocks until the mutex is free
AcquirePayload(t, next) ==
    /\ payload_lock = NoThread
    /\ payload_lock' = t
    /\ pc' = [pc EXCEPT ![t] = next]
    /\ ret' = NoRet
    /\ UNCHANGED <<payloadVars, sharedVars, cancel_on_drop, strong_count, handles,
                   timeVars, histVars>>

LockPayload(t, next) == CanCall(t) /\ AcquirePayload(t, next)

\* Condvar::notify_all: every thread parked on cond_var is woken; the thread
\* `t` that notifies returns to `next`.
NotifyAll(t, next) ==
    [u \in Threads |->
        IF u = t THEN next
        ELSE IF pc[u] = "get_wait" THEN "get_woken"
        ELSE IF pc[u] = "tgt_wait" THEN "tgt_woken"
        ELSE pc[u]]

\* ------------------------------------------------------------ Future::set
SetLock(t) == LockPayload(t, "set_cs")

\* set() without the check of the state: it stores its result in any state
SetBodyUnchecked(t) ==
    /\ pc[t] = "set_cs"
    /\ \E result \in Values :
        /\ state' = Ready
        /\ value' = result
        /\ sets' = Append(sets, result)
    /\ pc' = NotifyAll(t, "idle")
    /\ ret' = Ok(t, "set", None)
    /\ payload_lock' = NoThread
    /\ UNCHANGED <<sharedVars, cancel_on_drop, strong_count, handles, timeVars, gets,
                   detached, written>>

\* set() that forgets cond_var.notify_all()
SetBodySilent(t) ==
    /\ pc[t] = "set_cs"
    /\ \E result \in Values :
        IF state # Waiting
        THEN /\ ret' = Err(t, "set", state)
             /\ UNCHANGED <<payloadVars, sets>>
        ELSE /\ state' = Ready
             /\ value' = result
             /\ ret' = Ok(t, "set", None)
             /\ sets' = Append(sets, result)
    /\ pc' = [pc EXCEPT ![t] = "idle"]
    /\ payload_lock' = NoThread
    /\ UNCHANGED <<sharedVars, cancel_on_drop, strong_count, handles, timeVars, gets,
                   detached, written>>

SetBody(t) ==
    /\ pc[t] = "set_cs"
    /\ \E result \in Values :
        IF state # Waiting
        THEN /\ ret' = Err(t, "set", state)
             /\ pc' = [pc EXCEPT ![t] = "idle"]
             /\ UNCHANGED <<payloadVars, sets>>
        ELSE /\ state' = Ready
             /\ value' = result
             /\ pc' = NotifyAll(t, "idle")
             /\ ret' = Ok(t, "set", None)
             /\ sets' = Append(sets, result)
    /\ payload_lock' = NoThread
    /\ UNCHANGED <<sharedVars, cancel_on_drop, strong_count, handles, timeVars, gets,
                   detached, written>>

\* --------------------------------------------------------- Future::cancel
\* cancel() without the check of the state: it cancels in any state
CancelPayloadAlways(t, next) ==
    /\ state' = Canceled
    /\ pc' = NotifyAll(t, next)
    /\ UNCHANGED value

\* cancel() that forgets cond_var.notify_all()
CancelPayloadSilent(t, next) ==
    /\ state' = (IF state = Waiting THEN Canceled ELSE state)
    /\ pc' = [pc EXCEPT ![t] = next]
    /\ UNCHANGED value

\* The body of cancel(), shared by the public call and by Drop::drop.
CancelPayload(t, next) ==
    IF state = Waiting
    THEN /\ state' = Canceled
         /\ pc' = NotifyAll(t, next)
         /\ UNCHANGED value
    ELSE /\ pc' = [pc EXCEPT ![t] = next]
         /\ UNCHANGED payloadVars

CancelLock(t) == LockPayload(t, "cancel_cs")

CancelBody(t) ==
    /\ pc[t] = "cancel_cs"
    /\ CancelPayload(t, "idle")
    /\ payload_lock' = NoThread
    /\ ret' = Ok(t, "cancel", None)
    /\ UNCHANGED <<sharedVars, cancel_on_drop, strong_count, handles, timeVars, histVars>>

\* ------------------------------------------- Future::get_state, is_waiting
GetStateLock(t) == LockPayload(t, "state_cs")

GetStateBody(t) ==
    /\ pc[t] = "state_cs"
    /\ ret' = [thr |-> t, op |-> "get_state", ok |-> TRUE, val |-> None, st |-> state]
    /\ pc' = [pc EXCEPT ![t] = "idle"]
    /\ payload_lock' = NoThread
    /\ UNCHANGED <<payloadVars, sharedVars, cancel_on_drop, strong_count, handles,
                   timeVars, histVars>>

IsWaitingLock(t) == LockPayload(t, "waiting_cs")

\* is_waiting() that tells whether the result is not ready
IsWaitingBodyNotReady(t) ==
    /\ pc[t] = "waiting_cs"
    /\ ret' = [thr |-> t, op |-> "is_waiting", ok |-> (state # Ready),
               val |-> None, st |-> "none"]
    /\ pc' = [pc EXCEPT ![t] = "idle"]
    /\ payload_lock' = NoThread
    /\ UNCHANGED <<payloadVars, sharedVars, cancel_on_drop, strong_count, handles,
                   timeVars, histVars>>

IsWaitingBody(t) ==
    /\ pc[t] = "waiting_cs"
    /\ ret' = [thr |-> t, op |-> "is_waiting", ok |-> (state = Waiting),
               val |-> None, st |-> "none"]
    /\ pc' = [pc EXCEPT ![t] = "idle"]
    /\ payload_lock' = NoThread
    /\ UNCHANGED <<payloadVars, sharedVars, cancel_on_drop, strong_count, handles,
                   timeVars, histVars>>

\* ------------------------------------------------ Future::extract_payload
\* extract_payload that hands out a copy of the result and leaves the payload
\* as it was
extract_payload_copy(st, val) ==
    IF st = Ready /\ val # None
    THEN [state |-> st, value |-> val, ok |-> TRUE, val |-> val, st |-> "none"]
    ELSE [state |-> st, value |-> val, ok |-> FALSE, val |-> None, st |-> st]

\* extract_payload that reports the state it found, not the state it leaves,
\* and forgets to take the value
extract_payload_keep(st, val) ==
    IF st = Ready
    THEN [state |-> Consumed, value |-> val, ok |-> (val # None), val |-> val,
          st |-> IF val # None THEN "none" ELSE Consumed]
    ELSE [state |-> st, value |-> val, ok |-> FALSE, val |-> None, st |-> st]

\* The payload after the call and the Result it returns.
extract_payload(st, val) ==
    IF st = Ready
    THEN IF val # None
         THEN [state |-> Consumed, value |-> None, ok |-> TRUE, val |-> val, st |-> "none"]
         ELSE [state |-> Consumed, value |-> None, ok |-> FALSE, val |-> None, st |-> Consumed]
    ELSE [state |-> st, value |-> val, ok |-> FALSE, val |-> None, st |-> st]

\* A consumer call `op` of thread t leaves through extract_payload and drops
\* the guard.
Extract(t, op) ==
    LET r == extract_payload(state, value) IN
    /\ state' = r.state
    /\ value' = r.value
    /\ ret' = [thr |-> t, op |-> op, ok |-> r.ok, val |-> r.val, st |-> r.st]
    /\ gets' = IF r.ok THEN Append(gets, r.val) ELSE gets
    /\ pc' = [pc EXCEPT ![t] = "idle"]
    /\ payload_lock' = NoThread
    /\ UNCHANGED <<sets, detached, written>>

\* -------------------------------------------------------- Future::try_get
TryGetLock(t) == LockPayload(t, "try_cs")

TryGetBody(t) ==
    /\ pc[t] = "try_cs"
    /\ Extract(t, "try_get")
    /\ UNCHANGED <<sharedVars, cancel_on_drop, strong_count, handles, timeVars>>

\* ------------------------------------------------------------ Future::get
GetLock(t) == LockPayload(t, "get_cs")

\* get() that keeps the guard while it waits
GetCheckHoldsLock(t) ==
    /\ pc[t] = "get_cs"
    /\ IF state = Waiting
       THEN /\ pc' = [pc EXCEPT ![t] = "get_wait"]
            /\ ret' = NoRet
            /\ UNCHANGED <<payloadVars, payload_lock, histVars>>
       ELSE Extract(t, "get")
    /\ UNCHANGED <<sharedVars, cancel_on_drop, strong_count, handles, timeVars>>

\* The head of the while loop: either cond_var.wait (which releases the
\* mutex and parks the thread) or extract_payload.
GetCheck(t) ==
    /\ pc[t] = "get_cs"
    /\ IF state = Waiting
       THEN /\ pc' = [pc EXCEPT ![t] = "get_wait"]
            /\ payload_lock' = NoThread
            /\ ret' = NoRet
            /\ UNCHANGED <<payloadVars, histVars>>
       ELSE Extract(t, "get")
    /\ UNCHANGED <<sharedVars, cancel_on_drop, strong_count, handles, timeVars>>

\* A spurious wakeup of Condvar::wait
GetSpurious(t) ==
    /\ pc[t] = "get_wait"
    /\ pc' = [pc EXCEPT ![t] = "get_woken"]
    /\ ret' = NoRet
    /\ UNCHANGED <<payloadVars, payload_lock, sharedVars, cancel_on_drop, strong_count,
                   handles, timeVars, histVars>>

\* Condvar::wait re-acquires the mutex before it returns
GetRelock(t) == pc[t] = "get_woken" /\ AcquirePayload(t, "get_cs")

\* ---------------------------------------------------------- time_remaining
time_remaining(tp) == IF now > tp THEN 0 ELSE tp - now

\* ------------------------------------------------ Future::try_get_timeout
\* let timeout_point = Instant::now() + timeout
TgtStart(t) ==
    /\ CanCall(t)
    /\ \E timeout \in 0..(MaxTime - now) :
        timeout_point' = [timeout_point EXCEPT ![t] = now + timeout]
    /\ pc' = [pc EXCEPT ![t] = "tgt_start"]
    /\ ret' = NoRet
    /\ UNCHANGED <<payloadVars, payload_lock, sharedVars, cancel_on_drop, strong_count,
                   handles, wake_at, now, histVars>>

TgtLock(t) == pc[t] = "tgt_start" /\ AcquirePayload(t, "tgt_cs")

\* try_get_timeout() whose loop forgets the deadline: `while payload.0 ==
\* State::Waiting`
TgtCheckNoDeadline(t) ==
    /\ pc[t] = "tgt_cs"
    /\ IF state = Waiting
       THEN /\ pc' = [pc EXCEPT ![t] = "tgt_rem"]
            /\ ret' = NoRet
            /\ UNCHANGED <<payloadVars, payload_lock, timeout_point, wake_at, histVars>>
       ELSE /\ Extract(t, "try_get_timeout")
            /\ timeout_point' = [timeout_point EXCEPT ![t] = 0]
            /\ wake_at' = [wake_at EXCEPT ![t] = 0]
    /\ UNCHANGED <<sharedVars, cancel_on_drop, strong_count, handles, now>>

\* The head of the while loop
TgtCheck(t) ==
    /\ pc[t] = "tgt_cs"
    /\ IF state = Waiting /\ now < timeout_point[t]
       THEN /\ pc' = [pc EXCEPT ![t] = "tgt_rem"]
            /\ ret' = NoRet
            /\ UNCHANGED <<payloadVars, payload_lock, timeout_point, wake_at, histVars>>
       ELSE /\ Extract(t, "try_get_timeout")
            /\ timeout_point' = [timeout_point EXCEPT ![t] = 0]
            /\ wake_at' = [wake_at EXCEPT ![t] = 0]
    /\ UNCHANGED <<sharedVars, cancel_on_drop, strong_count, handles, now>>

\* cond_var.wait_timeout(payload, time_remaining(timeout_point)): the mutex
\* is released and the thread parks for at most the computed duration.
TgtWait(t) ==
    /\ pc[t] = "tgt_rem"
    /\ wake_at' = [wake_at EXCEPT ![t] = now + time_remaining(timeout_point[t])]
    /\ pc' = [pc EXCEPT ![t] = "tgt_wait"]
    /\ payload_lock' = NoThread
    /\ ret' = NoRet
    /\ UNCHANGED <<payloadVars, sharedVars, cancel_on_drop, strong_count, handles,
                   timeout_point, now, histVars>>

\* wait_timeout ends because its duration has elapsed
TgtTimeout(t) ==
    /\ pc[t] = "tgt_wait"
    /\ now >= wake_at[t]
    /\ pc' = [pc EXCEPT ![t] = "tgt_woken"]
    /\ ret' = NoRet
    /\ UNCHANGED <<payloadVars, payload_lock, sharedVars, cancel_on_drop, strong_count,
                   handles, timeVars, histVars>>

\* A spurious wakeup of Condvar::wait_timeout
TgtSpurious(t) ==
    /\ pc[t] = "tgt_wait"
    /\ pc' = [pc EXCEPT ![t] = "tgt_woken"]
    /\ ret' = NoRet
    /\ UNCHANGED <<payloadVars, payload_lock, sharedVars, cancel_on_drop, strong_count,
                   handles, timeVars, histVars>>

TgtRelock(t) == pc[t] = "tgt_woken" /\ AcquirePayload(t, "tgt_cs")

\* ------------------------------------------------- shared-state accessors
\* An accessor that takes the payload lock before the shared-state lock
LockSharedUnderPayload(t, next) ==
    /\ CanCall(t)
    /\ payload_lock = NoThread
    /\ shared_lock = NoThread
    /\ payload_lock' = t
    /\ shared_lock' = t
    /\ pc' = [pc EXCEPT ![t] = next]
    /\ ret' = NoRet
    /\ UNCHANGED <<payloadVars, shared_state, cancel_on_drop, strong_count,
                   handles, timeVars, histVars>>

\* self.0.shared_state.lock()
LockShared(t, next) ==
    /\ CanCall(t)
    /\ shared_lock = NoThread
    /\ shared_lock' = t
    /\ pc' = [pc EXCEPT ![t] = next]
    /\ ret' = NoRet
    /\ UNCHANGED <<payloadVars, payload_lock, shared_state, cancel_on_drop, strong_count,
                   handles, timeVars, histVars>>

\* A critical section on shared_state that works on a copy of the value: what
\* it writes is lost
SharedBodyOnCopy(t, new, r) ==
    /\ shared_state' = shared_state
    /\ written' = (IF r.op = "get_shared_state" THEN written ELSE new)
    /\ shared_lock' = NoThread
    /\ pc' = [pc EXCEPT ![t] = "idle"]
    /\ ret' = r
    /\ UNCHANGED <<payloadVars, payload_lock, cancel_on_drop, strong_count, handles,
                   timeVars, sets, gets, detached>>

\* The critical section on shared_state: the value becomes `new`, the guard is
\* dropped and the call returns `r`.
SharedBody(t, new, r) ==
    /\ shared_state' = new
    /\ written' = (IF r.op = "get_shared_state" THEN written ELSE new)
    /\ shared_lock' = NoThread
    /\ pc' = [pc EXCEPT ![t] = "idle"]
    /\ ret' = r
    /\ UNCHANGED <<payloadVars, payload_lock, cancel_on_drop, strong_count, handles,
                   timeVars, sets, gets, detached>>

GetSharedStateLock(t) == LockShared(t, "gss_cs")

GetSharedStateBody(t) ==
    /\ pc[t] = "gss_cs"
    /\ SharedBody(t, shared_state, Ok(t, "get_shared_state", shared_state))

SetSharedStateLock(t) == LockShared(t, "sss_cs")

SetSharedStateBody(t) ==
    /\ pc[t] = "sss_cs"
    /\ \E new \in SharedValues : SharedBody(t, new, Ok(t, "set_shared_state", None))

\* Closures handed to access_shared_state, as FnOnce(&mut U): what they leave
\* in the shared state `u`
Modifiers == {"keep", "incr", "reset"}
ApplyModifier(m, u) ==
    CASE m = "keep" -> u
      [] m = "incr" -> (u + 1) % (MaxShared + 1)
      [] m = "reset" -> 0

AccessSharedStateLock(t) == LockShared(t, "acc_cs")

AccessSharedStateBody(t) ==
    /\ pc[t] = "acc_cs"
    /\ \E modifier \in Modifiers :
        SharedBody(t, ApplyModifier(modifier, shared_state),
                   Ok(t, "access_shared_state", None))

\* Closures handed to access_shared_state_param, as FnOnce(&mut U, V)
ParamModifiers == {"store", "add"}
ApplyParamModifier(m, u, v) ==
    CASE m = "store" -> v
      [] m = "add" -> (u + v) % (MaxShared + 1)

AccessSharedStateParamLock(t) == LockShared(t, "accp_cs")

AccessSharedStateParamBody(t) ==
    /\ pc[t] = "accp_cs"
    /\ \E modifier \in ParamModifiers, parameter \in SharedValues :
        SharedBody(t, ApplyParamModifier(modifier, shared_state, parameter),
                   Ok(t, "access_shared_state_param", None))

\* --------------------------------------------------------- Future::detach
Detach(t) ==
    /\ CanCall(t)
    /\ cancel_on_drop' = FALSE
    /\ ret' = Ok(t, "detach", None)
    /\ detached' = TRUE
    /\ UNCHANGED <<payloadVars, payload_lock, sharedVars, strong_count, handles, pc,
                   timeVars, sets, gets, written>>

\* ------------------------------------------------------- Clone for Future
\* Arc::clone increments the strong count; the new handle is kept by the
\* cloning thread or moved to another one (as run_async_with_state does).
Clone(t, u) ==
    /\ CanCall(t)
    /\ strong_count < MaxHandles
    /\ strong_count' = strong_count + 1
    /\ handles' = [handles EXCEPT ![u] = @ + 1]
    /\ ret' = Ok(t, "clone", None)
    /\ UNCHANGED <<payloadVars, payload_lock, sharedVars, cancel_on_drop, pc,
                   timeVars, histVars>>

\* -------------------------------------------------------- Drop for Future
\* The threshold of `Arc::strong_count(&self.0) <= 2`
drop_threshold == 2

\* drop() that compares the number of handles that survive the release
DropCountSurvivors(t) ==
    /\ CanCall(t)
    /\ pc' = [pc EXCEPT ![t] = IF strong_count - 1 <= drop_threshold
                                THEN "drop_flag" ELSE "drop_many"]
    /\ ret' = NoRet
    /\ UNCHANGED <<payloadVars, payload_lock, sharedVars, cancel_on_drop, strong_count,
                   handles, timeVars, histVars>>

\* drop() with `<` in the place of `<=`
DropCountStrict(t) ==
    /\ CanCall(t)
    /\ pc' = [pc EXCEPT ![t] = IF strong_count < drop_threshold
                                THEN "drop_flag" ELSE "drop_many"]
    /\ ret' = NoRet
    /\ UNCHANGED <<payloadVars, payload_lock, sharedVars, cancel_on_drop, strong_count,
                   handles, timeVars, histVars>>

\* Arc::strong_count(&self.0) <= 2: the left operand of &&.  When it is false
\* the body of drop is over ("drop_many": more than two handles were counted).
DropCount(t) ==
    /\ CanCall(t)
    /\ pc' = [pc EXCEPT ![t] = IF strong_count <= drop_threshold
                                THEN "drop_flag" ELSE "drop_many"]
    /\ ret' = NoRet
    /\ UNCHANGED <<payloadVars, payload_lock, sharedVars, cancel_on_drop, strong_count,
                   handles, timeVars, histVars>>

\* drop() that does not consult cancel_on_drop
DropFlagIgnored(t) ==
    /\ pc[t] = "drop_flag"
    /\ pc' = [pc EXCEPT ![t] = "drop_cancel"]
    /\ ret' = NoRet
    /\ UNCHANGED <<payloadVars, payload_lock, sharedVars, cancel_on_drop, strong_count,
                   handles, timeVars, histVars>>

\* self.0.cancel_on_drop.load(Ordering::Relaxed): the right operand of &&
DropFlag(t) ==
    /\ pc[t] = "drop_flag"
    /\ pc' = [pc EXCEPT ![t] = IF cancel_on_drop THEN "drop_cancel" ELSE "drop_dec"]
    /\ ret' = NoRet
    /\ UNCHANGED <<payloadVars, payload_lock, sharedVars, cancel_on_drop, strong_count,
                   handles, timeVars, histVars>>

\* self.cancel() inside drop
DropCancelLock(t) == pc[t] = "drop_cancel" /\ AcquirePayload(t, "drop_cancel_cs")

DropCancelBody(t) ==
    /\ pc[t] = "drop_cancel_cs"
    /\ CancelPayload(t, "drop_dec")
    /\ payload_lock' = NoThread
    /\ ret' = NoRet
    /\ UNCHANGED <<sharedVars, cancel_on_drop, strong_count, handles, timeVars, histVars>>

\* After Drop::drop the field self.0 is dropped: the Arc gives up its count.
DropDec(t) ==
    /\ pc[t] \in {"drop_dec", "drop_many"}
    /\ strong_count' = strong_count - 1
    /\ handles' = [handles EXCEPT ![t] = @ - 1]
    /\ pc' = [pc EXCEPT ![t] = "idle"]
    /\ ret' = Ok(t, "drop", None)
    /\ UNCHANGED <<payloadVars, payload_lock, sharedVars, cancel_on_drop, timeVars,
                   histVars>>

\* The monotonic clock advances
Tick ==
    /\ now < MaxTime
    /\ now' = now + 1
    /\ ret' = NoRet
    /\ UNCHANGED <<payloadVars, payload_lock, sharedVars, cancel_on_drop, strong_count,
                   handles, pc, timeout_point, wake_at, histVars>>

\* The lifecycle of the result: every operation on the payload, on the handles
\* and on the cancellation flag, and the passing of time.
Next ==
    \/ \E t \in Threads : SetLock(t)
    \/ \E t \in Threads : SetBody(t)
    \/ \E t \in Threads : CancelLock(t)
    \/ \E t \in Threads : CancelBody(t)
    \/ \E t \in Threads : GetStateLock(t)
    \/ \E t \in Threads : GetStateBody(t)
    \/ \E t \in Threads : IsWaitingLock(t)
    \/ \E t \in Threads : IsWaitingBody(t)
    \/ \E t \in Threads : TryGetLock(t)
    \/ \E t \in Threads : TryGetBody(t)
    \/ \E t \in Threads : GetLock(t)
    \/ \E t \in Threads : GetCheck(t)
    \/ \E t \in Threads : GetSpurious(t)
    \/ \E t \in Threads : GetRelock(t)
    \/ \E t \in Threads : TgtStart(t)
    \/ \E t \in Threads : TgtLock(t)
    \/ \E t \in Threads : TgtCheck(t)
    \/ \E t \in Threads : TgtWait(t)
    \/ \E t \in Threads : TgtTimeout(t)
    \/ \E t \in Threads : TgtSpurious(t)
    \/ \E t \in Threads : TgtRelock(t)
    \/ \E t \in Threads : Detach(t)
    \/ \E t \in Threads, u \in Threads : Clone(t, u)
    \/ \E t \in Threads : DropCount(t)
    \/ \E t \in Threads : DropFlag(t)
    \/ \E t \in Threads : DropCancelLock(t)
    \/ \E t \in Threads : DropCancelBody(t)
    \/ \E t \in Threads : DropDec(t)
    \/ Tick

\* A future without shared state (Future::new), used through every lifecycle
\* operation by the threads of MainThreads.
Spec == Init /\ [][Next]_vars

\* The lifecycle operations and the shared-state accessors
FullNext ==
    \/ Next
    \/ \E t \in Threads : GetSharedStateLock(t)
    \/ \E t \in Threads : GetSharedStateBody(t)
    \/ \E t \in Threads : SetSharedStateLock(t)
    \/ \E t \in Threads : SetSharedStateBody(t)
    \/ \E t \in Threads : AccessSharedStateLock(t)
    \/ \E t \in Threads : AccessSharedStateBody(t)
    \/ \E t \in Threads : AccessSharedStateParamLock(t)
    \/ \E t \in Threads : AccessSharedStateParamBody(t)

\* A future with shared state, used through every operation.
FullSpec == InitShared /\ [][FullNext]_vars

\* ------------------------------------------ a caller and its job, one handle each
\* The future has been created with `shared` and cloned, and every thread of T
\* owns one handle.
InitEach(T, shared) ==
    /\ state = Waiting
    /\ value = None
    /\ payload_lock = NoThread
    /\ shared_state = shared
    /\ shared_lock = NoThread
    /\ cancel_on_drop = TRUE
    /\ strong_count = Cardinality(T)
    /\ handles = [t \in T |-> 1]
    /\ pc = [t \in T |-> "idle"]
    /\ timeout_point = [t \in T |-> 0]
    /\ wake_at = [t \in T |-> 0]
    /\ now = 0
    /\ ret = NoRet
    /\ sets = <<>>
    /\ gets = <<>>
    /\ detached = FALSE
    /\ written = shared

\* run_async_with_state(job, shared_state): the future is created, cloned and
\* the clone is moved into the job's thread, so that each of the two threads
\* owns one handle.
InitPair == \E shared \in SharedValues : InitEach(MainThreads, shared)

\* Every operation of the two handles but clone()
SharedNext ==
    \/ \E t \in Threads : SetLock(t)
    \/ \E t \in Threads : SetBody(t)
    \/ \E t \in Threads : CancelLock(t)
    \/ \E t \in Threads : CancelBody(t)
    \/ \E t \in Threads : GetStateLock(t)
    \/ \E t \in Threads : GetStateBody(t)
    \/ \E t \in Threads : IsWaitingLock(t)
    \/ \E t \in Threads : IsWaitingBody(t)
    \/ \E t \in Threads : TryGetLock(t)
    \/ \E t \in Threads : TryGetBody(t)
    \/ \E t \in Threads : GetLock(t)
    \/ \E t \in Threads : GetCheck(t)
    \/ \E t \in Threads : GetSpurious(t)
    \/ \E t \in Threads : GetRelock(t)
    \/ \E t \in Threads : TgtStart(t)
    \/ \E t \in Threads : TgtLock(t)
    \/ \E t \in Threads : TgtCheck(t)
    \/ \E t \in Threads : TgtWait(t)
    \/ \E t \in Threads : TgtTimeout(t)
    \/ \E t \in Threads : TgtSpurious(t)
    \/ \E t \in Threads : TgtRelock(t)
    \/ \E t \in Threads : Detach(t)
    \/ \E t \in Threads : DropCount(t)
    \/ \E t \in Threads : DropFlag(t)
    \/ \E t \in Threads : DropCancelLock(t)
    \/ \E t \in Threads : DropCancelBody(t)
    \/ \E t \in Threads : DropDec(t)
    \/ Tick
    \/ \E t \in Threads : GetSharedStateLock(t)
    \/ \E t \in Threads : GetSharedStateBody(t)
    \/ \E t \in Threads : SetSharedStateLock(t)
    \/ \E t \in Threads : SetSharedStateBody(t)
    \/ \E t \in Threads : AccessSharedStateLock(t)
    \/ \E t \in Threads : AccessSharedStateBody(t)
    \/ \E t \in Threads : AccessSharedStateParamLock(t)
    \/ \E t \in Threads : AccessSharedStateParamBody(t)

\* A caller and its job use their handles, payload and shared state alike,
\* until they release them.
SharedSpec == InitPair /\ [][SharedNext]_vars

\* --------------------------------------------- a future that is never set
\* Every operation but set() and try_get_timeout()
NoSetNext ==
    \/ \E t \in Threads : CancelLock(t)
    \/ \E t \in Threads : CancelBody(t)
    \/ \E t \in Threads : GetStateLock(t)
    \/ \E t \in Threads : GetStateBody(t)
    \/ \E t \in Threads : IsWaitingLock(t)
    \/ \E t \in Threads : IsWaitingBody(t)
    \/ \E t \in Threads : TryGetLock(t)
    \/ \E t \in Threads : TryGetBody(t)
    \/ \E t \in Threads : GetLock(t)
    \/ \E t \in Threads : GetCheck(t)
    \/ \E t \in Threads : GetSpurious(t)
    \/ \E t \in Threads : GetRelock(t)
    \/ \E t \in Threads : Detach(t)
    \/ \E t \in Threads, u \in Threads : Clone(t, u)
    \/ \E t \in Threads : DropCount(t)
    \/ \E t \in Threads : DropFlag(t)
    \/ \E t \in Threads : DropCancelLock(t)
    \/ \E t \in Threads : DropCancelBody(t)
    \/ \E t \in Threads : DropDec(t)

\* Fair scheduling: a thread inside a call keeps running (weak fairness of
\* every step that does not wait for a mutex), and a thread that waits for the
\* payload mutex in the middle of a call gets it when it is free often enough
\* (strong fairness).  Nothing obliges a thread to start a call, and nothing
\* obliges a spurious wakeup to happen.
NoSetFairness ==
    \A t \in WaitThreads :
        /\ WF_vars(CancelBody(t))
        /\ WF_vars(GetStateBody(t))
        /\ WF_vars(IsWaitingBody(t))
        /\ WF_vars(TryGetBody(t))
        /\ WF_vars(GetCheck(t))
        /\ SF_vars(GetRelock(t))
        /\ WF_vars(DropFlag(t))
        /\ SF_vars(DropCancelLock(t))
        /\ WF_vars(DropCancelBody(t))
        /\ WF_vars(DropDec(t))

\* Three threads use a future that is never set and never waited for with a
\* timeout.
NoSetSpec == InitWith(WaitThreads, 0) /\ [][NoSetNext]_vars /\ NoSetFairness

\* ------------------------------------------------ a future waited for in time
\* set(), cancel(), try_get_timeout() and clone(), while time passes
TimedNext ==
    \/ \E t \in Threads : SetLock(t)
    \/ \E t \in Threads : SetBody(t)
    \/ \E t \in Threads : CancelLock(t)
    \/ \E t \in Threads : CancelBody(t)
    \/ \E t \in Threads : TgtStart(t)
    \/ \E t \in Threads : TgtLock(t)
    \/ \E t \in Threads : TgtCheck(t)
    \/ \E t \in Threads : TgtWait(t)
    \/ \E t \in Threads : TgtTimeout(t)
    \/ \E t \in Threads : TgtSpurious(t)
    \/ \E t \in Threads : TgtRelock(t)
    \/ \E t \in Threads, u \in Threads : Clone(t, u)
    \/ Tick

\* Fair scheduling as in NoSetFairness, and the clock keeps advancing (up to
\* MaxTime, which no deadline exceeds); a wait_timeout whose duration has
\* elapsed ends.  Nothing obliges a thread to start a call or a spurious wakeup
\* to happen.
TimedFairness ==
    /\ WF_vars(Tick)
    /\ \A t \in MainThreads :
        /\ WF_vars(SetBody(t))
        /\ WF_vars(CancelBody(t))
        /\ SF_vars(TgtLock(t))
        /\ WF_vars(TgtCheck(t))
        /\ WF_vars(TgtWait(t))
        /\ WF_vars(TgtTimeout(t))
        /\ SF_vars(TgtRelock(t))

\* Two threads set, cancel and wait with a timeout.
TimedSpec == Init /\ [][TimedNext]_vars /\ TimedFairness

\* ------------------------------------------------- producers that race
\* set(), cancel(), try_get(), clone() and the release of handles
RaceNext ==
    \/ \E t \in Threads : SetLock(t)
    \/ \E t \in Threads : SetBody(t)
    \/ \E t \in Threads : CancelLock(t)
    \/ \E t \in Threads : CancelBody(t)
    \/ \E t \in Threads : TryGetLock(t)
    \/ \E t \in Threads : TryGetBody(t)
    \/ \E t \in Threads, u \in Threads : Clone(t, u)
    \/ \E t \in Threads : DropCount(t)
    \/ \E t \in Threads : DropFlag(t)
    \/ \E t \in Threads : DropCancelLock(t)
    \/ \E t \in Threads : DropCancelBody(t)
    \/ \E t \in Threads : DropDec(t)

\* Three threads set, cancel, poll and release the handles of one future.
RaceSpec == InitWith(WaitThreads, 0) /\ [][RaceNext]_vars

\* ---------------------------------------------------- waiters and a producer
Producers == {1}                   \* the thread that sets or cancels
Waiters == WaitThreads \ Producers \* the threads that wait for the result

\* The producer sets and cancels; the waiters call get() and
\* try_get_timeout(), while time passes.
WakeNext ==
    \/ \E t \in Producers : SetLock(t)
    \/ \E t \in Producers : SetBody(t)
    \/ \E t \in Producers : CancelLock(t)
    \/ \E t \in Producers : CancelBody(t)
    \/ \E t \in Waiters : GetLock(t)
    \/ \E t \in Waiters : GetCheck(t)
    \/ \E t \in Waiters : GetSpurious(t)
    \/ \E t \in Waiters : GetRelock(t)
    \/ \E t \in Waiters : TgtStart(t)
    \/ \E t \in Waiters : TgtLock(t)
    \/ \E t \in Waiters : TgtCheck(t)
    \/ \E t \in Waiters : TgtWait(t)
    \/ \E t \in Waiters : TgtTimeout(t)
    \/ \E t \in Waiters : TgtSpurious(t)
    \/ \E t \in Waiters : TgtRelock(t)
    \/ Tick

\* Fair scheduling as in NoSetFairness.  The clock need not advance, a timed
\* wait need not time out and no spurious wakeup need happen: a waiter can
\* count on notify_all only.
WakeFairness ==
    /\ \A t \in Producers :
        /\ WF_vars(SetBody(t))
        /\ WF_vars(CancelBody(t))
    /\ \A t \in Waiters :
        /\ WF_vars(GetCheck(t))
        /\ SF_vars(GetRelock(t))
        /\ SF_vars(TgtLock(t))
        /\ WF_vars(TgtCheck(t))
        /\ WF_vars(TgtWait(t))
        /\ SF_vars(TgtRelock(t))

\* Two threads wait for a future that a third one sets or cancels, each
\* through its own handle.
WakeSpec == InitEach(WaitThreads, 0) /\ [][WakeNext]_vars /\ WakeFairness

\* ------------------------------------------- operations next to blocked waiters
Blocked == MainThreads \ Producers \* the thread that waits for the result

\* The waiter calls get() and try_get_timeout(); the producer calls every
\* other operation and releases its handle.
BlockNext ==
    \/ \E t \in Blocked : GetLock(t)
    \/ \E t \in Blocked : GetCheck(t)
    \/ \E t \in Blocked : GetSpurious(t)
    \/ \E t \in Blocked : GetRelock(t)
    \/ \E t \in Blocked : TgtStart(t)
    \/ \E t \in Blocked : TgtLock(t)
    \/ \E t \in Blocked : TgtCheck(t)
    \/ \E t \in Blocked : TgtWait(t)
    \/ \E t \in Blocked : TgtTimeout(t)
    \/ \E t \in Blocked : TgtSpurious(t)
    \/ \E t \in Blocked : TgtRelock(t)
    \/ \E t \in Producers : SetLock(t)
    \/ \E t \in Producers : SetBody(t)
    \/ \E t \in Producers : CancelLock(t)
    \/ \E t \in Producers : CancelBody(t)
    \/ \E t \in Producers : GetStateLock(t)
    \/ \E t \in Producers : GetStateBody(t)
    \/ \E t \in Producers : IsWaitingLock(t)
    \/ \E t \in Producers : IsWaitingBody(t)
    \/ \E t \in Producers : TryGetLock(t)
    \/ \E t \in Producers : TryGetBody(t)
    \/ \E t \in Producers : Detach(t)
    \/ \E t \in Producers : GetSharedStateLock(t)
    \/ \E t \in Producers : GetSharedStateBody(t)
    \/ \E t \in Producers : SetSharedStateLock(t)
    \/ \E t \in Producers : SetSharedStateBody(t)
    \/ \E t \in Producers : AccessSharedStateLock(t)
    \/ \E t \in Producers : AccessSharedStateBody(t)
    \/ \E t \in Producers : AccessSharedStateParamLock(t)
    \/ \E t \in Producers : AccessSharedStateParamBody(t)
    \/ \E t \in Producers : DropCount(t)
    \/ \E t \in Producers : DropFlag(t)
    \/ \E t \in Producers : DropCancelLock(t)
    \/ \E t \in Producers : DropCancelBody(t)
    \/ \E t \in Producers : DropDec(t)
    \/ Tick

\* Fair scheduling: a thread that holds a lock, or that is inside a release,
\* keeps running, and a release that waits for the payload mutex gets it when
\* it is free often enough.  Nothing obliges a parked waiter to wake up: the
\* clock need not advance and no spurious wakeup need happen.
BlockFairness ==
    /\ \A t \in Blocked :
        /\ WF_vars(GetCheck(t))
        /\ WF_vars(TgtCheck(t))
        /\ WF_vars(TgtWait(t))
    /\ \A t \in Producers :
        /\ WF_vars(SetBody(t))
        /\ WF_vars(CancelBody(t))
        /\ WF_vars(GetStateBody(t))
        /\ WF_vars(IsWaitingBody(t))
        /\ WF_vars(TryGetBody(t))
        /\ WF_vars(GetSharedStateBody(t))
        /\ WF_vars(SetSharedStateBody(t))
        /\ WF_vars(AccessSharedStateBody(t))
        /\ WF_vars(AccessSharedStateParamBody(t))
        /\ WF_vars(DropFlag(t))
        /\ SF_vars(DropCancelLock(t))
        /\ WF_vars(DropCancelBody(t))
        /\ WF_vars(DropDec(t))

\* One thread uses the future while the other waits for it, each through its
\* own handle.
BlockSpec == InitEach(MainThreads, 0) /\ [][BlockNext]_vars /\ BlockFairness

\* ------------------------------------------------------------------ claims
ConsumerOps == {"try_get", "try_get_timeout", "get"}
ConsumerCs == {"try_cs", "tgt_cs", "get_cs"}

\* Thread t returns from the call whose critical section is `cs` in this step.
Returns(t, cs) == pc[t] = cs /\ pc'[t] = "idle"

\* C1: the value stored by a successful set() is returned Ok by at most one
\* consumer call (get, try_get, try_get_timeout); every consumer call that
\* returns once a value has been delivered returns an error.
C1_AtMostOnceDelivery ==
    /\ Len(gets) <= 1
    /\ \A i \in 1..Len(gets) : \E j \in 1..Len(sets) : gets[i] = sets[j]

\* C1 witness: a value was delivered and a later consumer call got an error.
C1_Witness ==
    /\ Len(gets) = 1
    /\ ret.op \in ConsumerOps
    /\ ~ret.ok

\* C2: the State changes only by Waiting->Ready, Waiting->Canceled or
\* Ready->Consumed; Consumed and Canceled are never left and Waiting is never
\* re-entered.
C2_LegalTransitions ==
    [][state' # state =>
          <<state, state'>> \in {<<Waiting, Ready>>, <<Waiting, Canceled>>,
                                 <<Ready, Consumed>>}]_vars

\* C2 witness: cancel() has just returned on a consumed future, which stayed
\* Consumed.
C2_Witness == state = Consumed /\ ret.op = "cancel"

\* C3: set() returns Ok exactly when it finds the State Waiting (and then the
\* State is Ready and its result is stored); otherwise it returns the State it
\* found as its error and leaves the State and the stored value unchanged.
C3_SetChecksState ==
    [][\A t \in Threads :
          Returns(t, "set_cs") =>
              IF state = Waiting
              THEN ret' = Ok(t, "set", None) /\ state' = Ready /\ value' \in Values
              ELSE ret' = Err(t, "set", state) /\ state' = state /\ value' = value]_vars

\* C3 witness: a second set() reported Ready while the first value is still
\* stored.
C3_Witness ==
    /\ ret.op = "set" /\ ~ret.ok /\ ret.st = Ready
    /\ state = Ready /\ sets = <<value>>

\* C4: once a cancel() has found the future Waiting, i.e. once the State is
\* Canceled, it stays Canceled, no value is stored or delivered, and every
\* set() that returns reports Canceled.
C4_CancelPoisons ==
    [][state = Canceled =>
          /\ state' = Canceled
          /\ value' = None
          /\ sets' = <<>>
          /\ gets' = <<>>
          /\ \A t \in Threads :
                Returns(t, "set_cs") => ret' = Err(t, "set", Canceled)]_vars

\* C4 witness: a set() called after cancel() reported Canceled.
C4_Witness == ret.op = "set" /\ ~ret.ok /\ ret.st = Canceled /\ state = Canceled

\* C5: on a future that is never set, a get() that is blocked while another
\* thread's cancel() is running, or while another thread's release has decided
\* to call cancel() (it read a count of at most two and a true flag),
\* eventually returns the error Canceled.
C5_GetUnblocksOnCancel ==
    \A t \in WaitThreads : \A u \in WaitThreads \ {t} :
        (pc[t] \in {"get_wait", "get_woken"}
            /\ pc[u] \in {"cancel_cs", "drop_cancel", "drop_cancel_cs"})
        ~> (ret = Err(t, "get", Canceled))

\* C5 witness: a thread parked in get() has been woken by the cancel() of a
\* release that is about to give up its handle.
C5_Witness ==
    \E t \in Threads : \E u \in Threads \ {t} :
        /\ pc[t] = "get_woken"
        /\ pc[u] = "drop_dec"
        /\ state = Canceled
        /\ strong_count = 2

\* C6: a release invokes cancel() if and only if the count it reads (which
\* still includes the releasing handle) is at most two and the flag it then
\* loads is true; the cancel() it invokes turns Waiting into Canceled, and no
\* other step of a release changes the State.
DropCancelPcs == {"drop_cancel", "drop_cancel_cs"}
DropPcs == {"drop_flag", "drop_dec", "drop_many"} \cup DropCancelPcs

C6_DropCancelsIff ==
    [][\A t \in Threads :
          /\ (pc[t] = "idle" /\ pc'[t] \in DropPcs) =>
                pc'[t] = (IF strong_count <= 2 THEN "drop_flag" ELSE "drop_many")
          /\ (pc[t] = "drop_flag" /\ pc'[t] # "drop_flag") =>
                pc'[t] = (IF cancel_on_drop THEN "drop_cancel" ELSE "drop_dec")
          /\ (pc[t] # "drop_cancel" /\ pc'[t] = "drop_cancel") => pc[t] = "drop_flag"
          /\ (pc[t] = "drop_cancel_cs" /\ pc'[t] # "drop_cancel_cs") =>
                /\ pc'[t] = "drop_dec"
                /\ state' = (IF state = Waiting THEN Canceled ELSE state)
          /\ (pc[t] \in DropPcs \ {"drop_cancel_cs"} /\ pc'[t] # pc[t]) =>
                state' = state]_vars

\* C6 witness: one of two handles of a waiting, non-detached future has been
\* released and the future is Canceled for the surviving handle.
C6_Witness ==
    /\ ret.op = "drop"
    /\ strong_count = 1
    /\ cancel_on_drop
    /\ state = Canceled

\* C7 as stated: with set() never called on a non-detached future, once
\* releases have left two handles (the job's and one other) the State is
\* Canceled.
C7_CanceledAtTwoHandles ==
    (ret.op = "drop" /\ strong_count = 2 /\ cancel_on_drop /\ sets = <<>>) =>
        state = Canceled

\* C7 amended: on a non-detached future that is never set, once the count of
\* live handles is two, a release of one of them calls cancel(), and a release
\* that has called cancel() returns with the State Canceled, whatever the other
\* threads do meanwhile.
C7_CanceledByReleaseAtTwo ==
    [][\A t \in Threads :
          /\ (pc[t] = "idle" /\ pc'[t] \in DropPcs /\ strong_count = 2) =>
                pc'[t] = "drop_flag"
          /\ (pc[t] = "drop_flag" /\ pc'[t] # pc[t] /\ ~detached) =>
                pc'[t] = "drop_cancel"
          /\ (pc[t] = "drop_cancel" /\ pc'[t] # pc[t]) => pc'[t] = "drop_cancel_cs"
          /\ (pc[t] = "drop_cancel_cs" /\ pc'[t] # pc[t]) =>
                (pc'[t] = "drop_dec" /\ state' # Waiting)
          /\ (pc[t] = "drop_dec" /\ pc'[t] # pc[t] /\ ~detached /\ sets = <<>>) =>
                /\ ret' = Ok(t, "drop", None)
                /\ state' = Canceled]_vars

\* C7 witness: thread 1 has released its handles and thread 2 (the job) holds
\* the only one left, of a future that was never set and is Canceled.
C7_Witness ==
    /\ ret = Ok(1, "drop", None)
    /\ handles[1] = 0 /\ handles[2] = 1
    /\ cancel_on_drop /\ sets = <<>>
    /\ state = Canceled

\* What one step may do to the flag, to the releases and to the State
DetachStep ==
    /\ ~cancel_on_drop => ~cancel_on_drop'
    /\ cancel_on_drop' # cancel_on_drop => ret'.op = "detach"
    /\ \A t \in Threads :
          (~cancel_on_drop /\ pc[t] \notin DropCancelPcs) => pc'[t] \notin DropCancelPcs
    /\ (~cancel_on_drop /\ (\A t \in Threads : pc[t] \notin DropCancelPcs)
            /\ state' # state) =>
          \E t \in Threads :
              pc[t] \in {"set_cs", "cancel_cs"} \cup ConsumerCs /\ pc'[t] = "idle"

\* C8: the flag is true until the first detach() returns and false ever after;
\* once it is false, a release that has not yet loaded it never invokes
\* cancel(), and from then on (all releases that loaded it earlier being over)
\* the State changes only in set(), cancel() and the consumer calls.
C8_DetachPermanent == [](cancel_on_drop <=> ~detached) /\ [][DetachStep]_vars

\* C8 witness: after detach() one of the last two handles was released and the
\* future is still Waiting.
C8_Witness ==
    /\ ~cancel_on_drop
    /\ ret.op = "drop"
    /\ strong_count = 1
    /\ state = Waiting

\* C9: the first consumer call that returns after a successful set(v) returns
\* exactly v, whatever handles were released in between; every consumer call
\* that returns after that one fails and reports Consumed.
C9_FirstConsumerGetsValue ==
    [][\A t \in Threads :
          (\E cs \in ConsumerCs : Returns(t, cs)) =>
              /\ (sets # <<>> /\ gets = <<>>) =>
                    (ret'.thr = t /\ ret'.ok /\ ret'.val = sets[1] /\ gets' = <<sets[1]>>)
              /\ gets # <<>> =>
                    (ret'.thr = t /\ ~ret'.ok /\ ret'.st = Consumed /\ gets' = gets)]_vars

\* C9 witness: the value was returned by get() on the only handle that is
\* left, the other handles having been released after the set().
C9_Witness ==
    /\ ret.op = "get" /\ ret.ok
    /\ gets = sets
    /\ strong_count = 1

\* C10: try_get() never waits; if the State is Ready it moves it to Consumed
\* and returns the value, otherwise it returns the State it found as its error
\* and leaves the State and the payload unchanged.
C10_TryGet ==
    [][\A t \in Threads :
          pc[t] = "try_cs" =>
              /\ pc'[t] \in {"try_cs", "idle"}
              /\ pc'[t] = "idle" =>
                    IF state = Ready
                    THEN /\ ret' = Ok(t, "try_get", value)
                         /\ value \in Values
                         /\ state' = Consumed
                         /\ value' = None
                    ELSE /\ ret' = Err(t, "try_get", state)
                         /\ state' = state
                         /\ value' = value]_vars

\* C10 witness: try_get() returned the value of a Ready future.
C10_Witness == ret.op = "try_get" /\ ret.ok /\ state = Consumed /\ gets = <<ret.val>>

\* What a step of try_get_timeout() of thread t does when it leaves the head of
\* its loop: it returns what try_get() would return on the payload it sees, and
\* it returns while the State is Waiting only if the deadline has elapsed.
TgtPcs == {"tgt_start", "tgt_cs", "tgt_rem", "tgt_wait", "tgt_woken"}

TgtStep(t) ==
    (pc[t] = "tgt_cs" /\ pc'[t] # "tgt_cs") =>
        IF state = Waiting /\ now < timeout_point[t]
        THEN pc'[t] = "tgt_rem" /\ state' = state /\ value' = value
        ELSE /\ pc'[t] = "idle"
             /\ IF state = Ready
                THEN /\ ret' = Ok(t, "try_get_timeout", value)
                     /\ value \in Values
                     /\ state' = Consumed /\ value' = None
                ELSE /\ ret' = Err(t, "try_get_timeout", state)
                     /\ state' = state /\ value' = value

\* C11: try_get_timeout() terminates; it returns the error Waiting only once
\* its deadline has elapsed, and then leaves the State Waiting; it never stays
\* parked, or goes to park, once the State has left Waiting, whatever the
\* clock says; and what it returns is what try_get() returns on the State it
\* sees last, a Ready value being consumed even after the deadline.
C11_TryGetTimeout ==
    /\ [][\A t \in Threads : TgtStep(t)]_vars
    /\ [](\A t \in Threads : state # Waiting => pc[t] \notin {"tgt_rem", "tgt_wait"})
    /\ \A t \in MainThreads :
          (pc[t] \in TgtPcs) ~> (ret.thr = t /\ ret.op = "try_get_timeout")

\* C11 witness: after time has passed, try_get_timeout() reported Waiting on a
\* future that was never set and is still Waiting.
C11_Witness ==
    /\ ret.op = "try_get_timeout" /\ ~ret.ok /\ ret.st = Waiting
    /\ state = Waiting
    /\ now > 0
    /\ sets = <<>>

\* C12: a cancel(), called explicitly or by a release, turns Waiting into
\* Canceled and leaves every other State, and the stored value in every State,
\* as it found them; once a cancel() has returned the State is not Waiting and
\* never is again, so that a second cancel() changes nothing.
C12_CancelIdempotent ==
    /\ [][\A t \in Threads :
            (pc[t] \in {"cancel_cs", "drop_cancel_cs"} /\ pc'[t] # pc[t]) =>
                /\ state' = (IF state = Waiting THEN Canceled ELSE state)
                /\ value' = value]_vars
    /\ [](ret.op = "cancel" => state # Waiting)
    /\ [][state # Waiting => state' # Waiting]_vars

\* C12 witness: a cancel() that returned after a successful set() left the
\* undelivered value in place.
C12_Witness ==
    /\ ret.op = "cancel"
    /\ state = Ready
    /\ sets = <<value>> /\ gets = <<>>

SharedCs == {"gss_cs", "sss_cs", "acc_cs", "accp_cs"}

\* Thread t takes a step of a shared-state accessor.
SharedStep(t) == pc'[t] # pc[t] /\ (pc[t] \in SharedCs \/ pc'[t] \in SharedCs)

\* C13: the shared-state accessors can run in every State of the lifecycle and
\* whoever holds the payload lock (they wait for the shared-state lock only);
\* their steps change neither the State, the stored result, the payload lock
\* nor the flag; the shared state changes only when set_shared_state or an
\* access call returns, so it is always what the last such call left; and
\* get_shared_state returns it.
C13_SharedStateIndependent ==
    /\ [](\A t \in Threads :
            /\ (CanCall(t) /\ shared_lock = NoThread) =>
                  /\ ENABLED GetSharedStateLock(t)
                  /\ ENABLED SetSharedStateLock(t)
                  /\ ENABLED AccessSharedStateLock(t)
                  /\ ENABLED AccessSharedStateParamLock(t)
            /\ pc[t] = "gss_cs" => ENABLED GetSharedStateBody(t)
            /\ pc[t] = "sss_cs" => ENABLED SetSharedStateBody(t)
            /\ pc[t] = "acc_cs" => ENABLED AccessSharedStateBody(t)
            /\ pc[t] = "accp_cs" => ENABLED AccessSharedStateParamBody(t))
    /\ [](shared_state = written)
    /\ [][/\ (\E t \in Threads : SharedStep(t)) =>
               UNCHANGED <<state, value, payload_lock, cancel_on_drop, strong_count,
                           sets, gets>>
          /\ shared_state' # shared_state =>
               \E t \in Threads : pc[t] \in SharedCs \ {"gss_cs"} /\ pc'[t] = "idle"
          /\ \A t \in Threads :
               Returns(t, "gss_cs") =>
                   ret' = Ok(t, "get_shared_state", written) /\ written' = written]_vars

\* C13 witness: get_shared_state returned the shared state of a consumed
\* future while another thread holds the payload lock.
C13_Witness ==
    /\ ret.op = "get_shared_state"
    /\ ret.val = MaxShared
    /\ state = Consumed
    /\ payload_lock # NoThread

\* What get_state() and is_waiting() do when they return: they report the State
\* and change nothing of the container.
ObserverStep(t) ==
    /\ Returns(t, "state_cs") =>
          ret' = [thr |-> t, op |-> "get_state", ok |-> TRUE, val |-> None, st |-> state]
    /\ Returns(t, "waiting_cs") =>
          ret' = [thr |-> t, op |-> "is_waiting", ok |-> (state = Waiting),
                  val |-> None, st |-> "none"]
    /\ (pc'[t] # pc[t] /\ (pc[t] \in {"state_cs", "waiting_cs"}
                            \/ pc'[t] \in {"state_cs", "waiting_cs"})) =>
          UNCHANGED <<state, value, shared_state, cancel_on_drop, strong_count,
                      handles, histVars>>

\* C14: get_state() and is_waiting() change nothing of the container and
\* is_waiting() returns whether the State is Waiting; once an is_waiting() has
\* returned false, every is_waiting() that returns later returns false and
\* every set() that returns later fails; and when one of the two handles of a
\* non-detached future has been released, the State is not Waiting, so that
\* is_waiting() on the other handle returns false.
C14_IsWaiting ==
    /\ [][\A t \in Threads : ObserverStep(t)]_vars
    /\ []((ret.op = "is_waiting" /\ ~ret.ok) =>
            [](ret.op \in {"is_waiting", "set"} => ~ret.ok))
    /\ []((ret.op = "drop" /\ ~detached) => state # Waiting)

\* C14 witness: the caller released its handle of a future that was never set
\* nor detached, and is_waiting() on the job's handle returned false.
C14_Witness ==
    /\ ret = [thr |-> 2, op |-> "is_waiting", ok |-> FALSE, val |-> None, st |-> "none"]
    /\ handles[1] = 0
    /\ sets = <<>> /\ ~detached
    /\ state = Canceled

\* C15: whenever the payload lock is free, a result is stored exactly when the
\* State is Ready; the step that moves the State to Consumed is a consumer call
\* that returns, finds a result stored, takes it and returns it Ok (so no
\* consumer call finds Ready without a result).
C15_PayloadInvariant ==
    /\ [](payload_lock = NoThread => (value # None <=> state = Ready))
    /\ [][(state' = Consumed /\ state # Consumed) =>
             /\ state = Ready /\ value \in Values /\ value' = None
             /\ \E t \in Threads, cs \in ConsumerCs :
                   /\ Returns(t, cs)
                   /\ ret'.thr = t /\ ret'.ok /\ ret'.val = value]_vars
    /\ [][\A t \in Threads, cs \in ConsumerCs :
             (Returns(t, cs) /\ state = Ready) => (value # None /\ ret'.ok)]_vars

\* C15 witness: get() has consumed the result; the lock is free, the State is
\* Consumed and no result is stored.
C15_Witness ==
    /\ ret.op = "get" /\ ret.ok
    /\ payload_lock = NoThread
    /\ state = Consumed
    /\ value = None

\* C16: at most one set() ever returns Ok; a set() that returns finds the State
\* Waiting and succeeds, or fails with the State it finds, which the winner
\* (another set(), a cancel() or a cancelling release) or a later consumer left;
\* a future that was set is never Canceled, a set() that finds Canceled reports
\* Canceled, and a cancel() of a future that was set changes nothing.
C16_SingleAssignment ==
    /\ [](Len(sets) <= 1)
    /\ [](sets # <<>> => state \in {Ready, Consumed})
    /\ [][\A t \in Threads :
            /\ Returns(t, "set_cs") =>
                  IF sets = <<>> /\ state = Waiting
                  THEN ret' = Ok(t, "set", None) /\ Len(sets') = 1
                  ELSE /\ state \in {Ready, Consumed, Canceled}
                       /\ ret' = Err(t, "set", state)
                       /\ sets' = sets
            /\ (pc[t] \in {"cancel_cs", "drop_cancel_cs"} /\ pc'[t] # pc[t]
                  /\ sets # <<>>) =>
                  UNCHANGED <<state, value>>]_vars

\* C16 witness: of three threads, one has set the future, the second has just
\* lost with the error Ready, and the third is in a release that has decided
\* to cancel and will find nothing to cancel.
C16_Witness ==
    \E t \in Threads :
        /\ ret = Err(t, "set", Ready)
        /\ Len(sets) = 1
        /\ \E u \in Threads \ {t} : pc[u] = "drop_cancel"

GetPcs == {"get_cs", "get_wait", "get_woken"}

\* What get() returns to thread t when it leaves its loop
GetStep(t) ==
    Returns(t, "get_cs") =>
        /\ state # Waiting
        /\ state = Canceled => ret' = Err(t, "get", Canceled)
        /\ (sets # <<>> /\ gets = <<>>) => (ret' = Ok(t, "get", sets[1]) /\ gets' = sets)
        /\ gets # <<>> => (ret' = Err(t, "get", Consumed) /\ gets' = gets)

\* C17: once the State has left Waiting no thread is parked, or about to park,
\* in get() or try_get_timeout(), and every thread inside one of them
\* returns, without the help of a timeout or of a spurious wakeup; after a
\* set() the first waiter to return gets the value and every other one fails
\* with Consumed, and after a cancel() every waiter fails with Canceled.
C17_NoLostWakeup ==
    /\ [](\A t \in Threads :
            state # Waiting => pc[t] \notin {"get_wait", "tgt_rem", "tgt_wait"})
    /\ [][\A t \in Threads : GetStep(t)]_vars
    /\ [](Len(gets) <= 1)
    /\ \A t \in Waiters :
          (state # Waiting /\ pc[t] \in GetPcs \cup TgtPcs)
              ~> (ret.thr = t /\ ret.op \in {"get", "try_get_timeout"})

\* C17 witness: the producer's set() has just returned Ok and both waiters,
\* which were inside get(), are awake and about to re-acquire the lock.
C17_Witness ==
    /\ ret = Ok(1, "set", None)
    /\ state = Ready
    /\ \A t \in Waiters : pc[t] = "get_woken"

\* Where a thread holds the payload lock
PayloadCs == {"set_cs", "cancel_cs", "state_cs", "waiting_cs", "try_cs", "get_cs",
              "tgt_cs", "tgt_rem", "drop_cancel_cs"}

\* The steps that end a critical section
CsStep(t) ==
    \/ SetBody(t) \/ CancelBody(t) \/ GetStateBody(t) \/ IsWaitingBody(t)
    \/ TryGetBody(t) \/ GetCheck(t) \/ TgtCheck(t) \/ TgtWait(t) \/ DropCancelBody(t)
    \/ GetSharedStateBody(t) \/ SetSharedStateBody(t)
    \/ AccessSharedStateBody(t) \/ AccessSharedStateParamBody(t)

\* C18: no thread holds the payload lock and the shared-state lock at once: a
\* thread holds the payload lock exactly inside the critical section of a
\* payload operation or of a release, the shared-state lock exactly inside
\* that of an accessor, and a thread that holds a lock can always take its
\* next step, whatever the other threads hold.
C18_LockingDiscipline ==
    \A t \in Threads :
        /\ ~(payload_lock = t /\ shared_lock = t)
        /\ payload_lock = t <=> pc[t] \in PayloadCs
        /\ shared_lock = t <=> pc[t] \in SharedCs
        /\ (payload_lock = t \/ shared_lock = t) => ENABLED CsStep(t)

\* C18 witness: the two locks are held at once, by different threads.
C18_Witness ==
    /\ payload_lock = 1
    /\ shared_lock = 2

\* Where a thread is suspended on the condition variable
ParkedPcs == {"get_wait", "tgt_wait"}

\* Where a thread is inside an operation other than get() and
\* try_get_timeout()
NonBlockingPcs ==
    {"set_cs", "cancel_cs", "state_cs", "waiting_cs", "try_cs"} \cup SharedCs \cup DropPcs

\* The next step of a thread inside such an operation
NonBlockingStep(t) ==
    \/ SetBody(t) \/ CancelBody(t) \/ GetStateBody(t) \/ IsWaitingBody(t)
    \/ TryGetBody(t) \/ GetSharedStateBody(t) \/ SetSharedStateBody(t)
    \/ AccessSharedStateBody(t) \/ AccessSharedStateParamBody(t)
    \/ DropFlag(t) \/ DropCancelLock(t) \/ DropCancelBody(t) \/ DropDec(t)

\* The operations thread t can start, other than get() and try_get_timeout()
NonBlockingCall(t) ==
    /\ ENABLED SetLock(t) /\ ENABLED CancelLock(t) /\ ENABLED GetStateLock(t)
    /\ ENABLED IsWaitingLock(t) /\ ENABLED TryGetLock(t) /\ ENABLED Detach(t)
    /\ ENABLED GetSharedStateLock(t) /\ ENABLED SetSharedStateLock(t)
    /\ ENABLED AccessSharedStateLock(t) /\ ENABLED AccessSharedStateParamLock(t)
    /\ ENABLED DropCount(t)

\* C19: a parked waiter holds no lock; while every other thread is parked in
\* get() or try_get_timeout(), a thread can start each of the other
\* operations at once and take every step of them; no step of those
\* operations parks the thread; and under fair scheduling every one of them,
\* once begun, returns, even if the parked waiters are never woken.
C19_WaitersHoldNoLock ==
    /\ [](\A t \in Threads :
            /\ pc[t] \in ParkedPcs => (payload_lock # t /\ shared_lock # t)
            /\ (\A u \in Threads \ {t} : pc[u] \in ParkedPcs) =>
                  /\ CanCall(t) => NonBlockingCall(t)
                  /\ pc[t] \in NonBlockingPcs => ENABLED NonBlockingStep(t))
    /\ [][\A t \in Threads :
            pc[t] \in NonBlockingPcs => pc'[t] \in NonBlockingPcs \cup {"idle"}]_vars
    /\ \A t \in Producers : (pc[t] \in NonBlockingPcs) ~> (pc[t] = "idle")

\* C19 witness: the waiter is parked in get() and the producer is inside
\* set(), holding the payload lock.
C19_Witness ==
    /\ \A t \in Blocked : pc[t] = "get_wait"
    /\ \E t \in Producers : pc[t] = "set_cs" /\ payload_lock = t

\* C20 as stated: on a future that was never set nor detached, whenever a
\* release, concurrent with others or not, has brought the number of handles
\* down to one, the State is Canceled.
C20_LoneHandleCanceled ==
    (ret.op = "drop" /\ strong_count = 1 /\ ~detached /\ sets = <<>>) =>
        state = Canceled
====
